---- MODULE Spec2Model ----
(***************************************************************************)
(* Model of bridge/provisioning.go: the provisioning API's login handshake *)
(* (ProvisioningAPI.login) run by concurrent requests against one User,    *)
(* and the shared-secret middleware (ProvisioningAPI.authMiddleware).      *)
(***************************************************************************)
EXTENDS Integers, Sequences, FiniteSets, TLC

(* ------------------------------------------------------------------ *)
(* Bounds                                                             *)
(* ------------------------------------------------------------------ *)

\* Codes the remote-auth client may send on qrChan during one handshake.
MaxCodes == 2

\* Reads of the closed qrChan (line 321-323) that one handshake is followed through.
MaxClosedReads == 1

\* Concurrent login requests for the same user (one goroutine each).
Handlers == {"h1", "h2"}

\* QR code values the remote-auth client may send.
Codes == {"XQR1", "XQR2"}

\* Discord user ids client.Result() may return.
Identities == {"discorduser#1", "discorduser#2"}

NoCode == "-"

\* Entries of a Sec-WebSocket-Protocol header.
MaxParts == 2

\* Tokens a request may present.
Tokens == {<<"a">>, <<"a", "b">>}

\* Values the configured shared secret may have.
Secrets == {<<"a">>, <<"a", "b">>}

\* The shared secret during the login handshakes.
LoginSecret == <<"a">>

\* Command requests (disconnect, reconnect, logout) served concurrently.
CmdRequests == {"r1", "r2"}

\* Ping requests served concurrently.
Pings == {"p1", "p2"}

\* Values of the force query parameter of a logout request.
ForceQueries ==
    {<<>>,
     <<"f", "a", "l", "s", "e">>,
     <<"F", "a", "l", "s", "e">>,
     <<"F", "A", "L", "S", "E">>,
     <<"f", "A", "l", "S", "e">>,
     <<"t", "r", "u", "e">>}

NoID == "-"

\* Request paths: the provisioning prefix "/v1" and a route.
Paths ==
    {<<"/", "v", "1", "/", "l", "o", "g", "i", "n">>,
     <<"/", "v", "1", "/", "p", "i", "n", "g">>,
     <<"/", "v", "1", "/", "l", "o", "g", "o", "u", "t">>}

(* ------------------------------------------------------------------ *)
(* Messages written to the websocket                                  *)
(* ------------------------------------------------------------------ *)

\* The advisory timeout of a code message (line 326).
QrTimeout == 120

\* Error{Error: "You're already logged into Discord", ErrCode: "already logged in"}
AlreadyLoggedInError ==
    [success |-> FALSE, error |-> "You're already logged into Discord",
     errcode |-> "already logged in"]

\* Error{Error: "Failed to connect to Discord", ErrCode: "connection error"}
ConnectionError ==
    [success |-> FALSE, error |-> "Failed to connect to Discord",
     errcode |-> "connection error"]

\* map{"code": qrCode, "timeout": 120}
CodeMessage(qrCode) ==
    [code |-> qrCode, timeout |-> QrTimeout]

\* map{"success": true, "id": user.ID}
SuccessMessage(id) ==
    [success |-> TRUE, id |-> id]

IsCodeMessage(m) == DOMAIN m = {"code", "timeout"}

\* A terminal message: {success:true,id} or {success:false,error,errcode}.
IsTerminalMessage(m) == "success" \in DOMAIN m

IsSuccessMessage(m) == DOMAIN m = {"success", "id"} /\ m.success = TRUE

IsFailureMessage(m) == DOMAIN m = {"success", "error", "errcode"} /\ m.success = FALSE

(* ------------------------------------------------------------------ *)
(* Collaborators outside this file                                    *)
(* ------------------------------------------------------------------ *)

\* upgrader.Upgrade: the websocket upgrade succeeds or fails.
UpgradeOutcomes == {"ok", "err"}

\* remoteauth.New: a client, or an error.
NewOutcomes == {"ok", "err"}

\* client.Dial on a client that New returned: connects, or reports an error.
\* On the value New returned together with an error the call cannot connect:
\* it reports an error or panics (nil receiver).
DialOutcomes(client) ==
    IF client = "ok" THEN {"ok", "err"} ELSE {"err", "panic"}

\* client.Result: the Discord user, or an error; an error when the dial
\* never connected.
ResultOutcomes(dialFailed) ==
    IF dialFailed THEN {"err"} ELSE {"err"} \cup Identities

\* user.Login(token): logs the session in, or fails and leaves it.
LoginOutcomes == {"ok", "err"}

(* ------------------------------------------------------------------ *)
(* State                                                              *)
(* ------------------------------------------------------------------ *)

VARIABLES
    userID,        \* user.ID
    persistedID,   \* the ID of the record user.Update() last stored
    loggedIn,      \* user.LoggedIn()
    pc,            \* pc[h]: where login handler h is
    conn,          \* conn[h]: the websocket c: "none", "open", "closed"
    peerClosed,    \* peerClosed[h]: the peer has sent its close frame
    reader,        \* reader[h]: the reader goroutine: "none", "reading", "exited"
    cancelled,     \* cancelled[h]: cancel() was called, ctx.Done() is closed
    closedWaiting, \* closedWaiting[h]: cancel() was called while the handler
                   \* was in the select loop and doneChan was not yet closed
    client,        \* client[h]: what remoteauth.New returned: "none", "ok", "err"
    clientPc,      \* clientPc[h]: the remote-auth client's goroutine
    pendingCode,   \* pendingCode[h]: the code the client is blocked sending
    chansClosed,   \* chansClosed[h]: close(qrChan); close(doneChan) ran
    doneFired,     \* doneFired[h]: the client closed doneChan
    qrCode,        \* qrCode[h]: the handler's local qrCode
    discordUser,   \* discordUser[h]: the UserID client.Result() returned
    emitted,       \* emitted[h]: codes received from qrChan, in order
    sent,          \* sent[h]: messages written with c.WriteJSON, in order
    outcome,       \* outcome[h]: how handler h ended
    dialed,        \* dialed[h]: client.Dial was called
    mutated,       \* mutated[h]: session writes handler h made
    closedReads,   \* closedReads[h]: reads of the closed qrChan
    secret,        \* Config.Appservice.Provisioning.SharedSecret
    request,       \* the request the middleware is serving, or NoRequest
    response,      \* what the middleware wrote to w, or NoResponse
    served,        \* h.ServeHTTP was called for the request
    connected,     \* user.Connected()
    hasSession,    \* user.Session != nil
    cmdPc,         \* cmdPc[r]: where command request r is
    cmdKind,       \* cmdKind[r]: the handler serving r
    cmdForce,      \* cmdForce[r]: the force query value of r
    cmdResp,       \* cmdResp[r]: the response written for r, or NoResponse
    cmdCalls,      \* cmdCalls[r]: calls r made of Disconnect, Connect or Logout
    cmdErr,        \* cmdErr[r]: what the call returned: "ok", "err", or "none"
    disconnects,   \* times the session went from connected to not connected
    connects,      \* times the session went from not connected to connected
    lock,          \* user.Lock(): the ping request holding it, or "none"
    pingPc,        \* pingPc[p]: where ping request p is
    pingID         \* pingID[p]: the discord["id"] that p read, or NoID

vars ==
    <<userID, persistedID, loggedIn, pc, conn, peerClosed, reader, cancelled,
      closedWaiting,
      client, clientPc, pendingCode, chansClosed, doneFired, qrCode,
      discordUser, emitted, sent, outcome, dialed, mutated, closedReads,
      secret, request, response, served,
      connected, hasSession, cmdPc, cmdKind, cmdForce, cmdResp, cmdCalls,
      cmdErr, disconnects, connects, lock, pingPc, pingID>>

gateVars == <<secret, request, response, served>>

loginVars ==
    <<userID, persistedID, loggedIn, pc, conn, peerClosed, reader, cancelled,
      closedWaiting,
      client, clientPc, pendingCode, chansClosed, doneFired, qrCode,
      discordUser, emitted, sent, outcome, dialed, mutated, closedReads>>

sessionVars == <<userID, persistedID, loggedIn>>

\* The login handlers' state without the session.
handshakeVars ==
    <<pc, conn, peerClosed, reader, cancelled, closedWaiting, client,
      clientPc, pendingCode, chansClosed, doneFired, qrCode, discordUser,
      emitted, sent, outcome, dialed, mutated, closedReads>>

cmdVars ==
    <<connected, hasSession, cmdPc, cmdKind, cmdForce, cmdResp, cmdCalls,
      cmdErr, disconnects, connects>>

pingVars == <<lock, pingPc, pingID>>

connVars == <<conn, peerClosed, reader, cancelled, closedWaiting>>

clientVars == <<client, clientPc, pendingCode, chansClosed, doneFired>>

NoRequest == [none |-> TRUE]

NoResponse == [none |-> TRUE]

\* No login request has arrived; the user is logged in or not.
InitLogin ==
    /\ loggedIn \in BOOLEAN
    /\ userID = IF loggedIn THEN "discorduser#1" ELSE ""
    /\ persistedID = userID
    /\ pc = [h \in Handlers |-> "idle"]
    /\ conn = [h \in Handlers |-> "none"]
    /\ peerClosed = [h \in Handlers |-> FALSE]
    /\ reader = [h \in Handlers |-> "none"]
    /\ cancelled = [h \in Handlers |-> FALSE]
    /\ closedWaiting = [h \in Handlers |-> FALSE]
    /\ client = [h \in Handlers |-> "none"]
    /\ clientPc = [h \in Handlers |-> "idle"]
    /\ pendingCode = [h \in Handlers |-> NoCode]
    /\ chansClosed = [h \in Handlers |-> FALSE]
    /\ doneFired = [h \in Handlers |-> FALSE]
    /\ qrCode = [h \in Handlers |-> NoCode]
    /\ discordUser = [h \in Handlers |-> ""]
    /\ emitted = [h \in Handlers |-> <<>>]
    /\ sent = [h \in Handlers |-> <<>>]
    /\ outcome = [h \in Handlers |-> "none"]
    /\ dialed = [h \in Handlers |-> FALSE]
    /\ mutated = [h \in Handlers |-> {}]
    /\ closedReads = [h \in Handlers |-> 0]

\* No request is with the middleware.
InitGate ==
    /\ request = NoRequest
    /\ response = NoResponse
    /\ served = FALSE

\* No command request has arrived.
InitCmd ==
    /\ cmdPc = [r \in CmdRequests |-> "idle"]
    /\ cmdKind = [r \in CmdRequests |-> "none"]
    /\ cmdForce = [r \in CmdRequests |-> <<>>]
    /\ cmdResp = [r \in CmdRequests |-> NoResponse]
    /\ cmdCalls = [r \in CmdRequests |-> 0]
    /\ cmdErr = [r \in CmdRequests |-> "none"]
    /\ disconnects = 0
    /\ connects = 0

\* No ping request has arrived; the user's lock is free.
InitPing ==
    /\ lock = "none"
    /\ pingPc = [p \in Pings |-> "idle"]
    /\ pingID = [p \in Pings |-> NoID]

Init ==
    /\ InitLogin
    /\ InitGate
    /\ InitCmd
    /\ InitPing
    /\ secret = LoginSecret
    /\ connected = loggedIn
    /\ hasSession = loggedIn

(* ------------------------------------------------------------------ *)
(* Helpers                                                            *)
(* ------------------------------------------------------------------ *)

\* c.WriteJSON(m): the message is appended to what was written to the peer.
WriteJSON(h, m) ==
    sent' = [sent EXCEPT ![h] = Append(@, m)]

\* The cases of the select at line 319 that are ready.
QrReady(h) == chansClosed[h] \/ clientPc[h] = "sending"

\* doneChan ready only when the client closed it: close(doneChan) after a
\* Dial error left out.
DoneReadyFiredOnly(h) == doneFired[h]

DoneReady(h) == chansClosed[h] \/ doneFired[h]

CtxDone(h) == cancelled[h]

\* The handler is parked in the select with no case ready: the first event
\* that makes a case ready decides which case runs.
Blocked(h) ==
    /\ pc[h] = "select"
    /\ ~QrReady(h)
    /\ ~DoneReady(h)
    /\ ~CtxDone(h)

(* ------------------------------------------------------------------ *)
(* The login handler, lines 252-365                                   *)
(* ------------------------------------------------------------------ *)

\* A login request for the user reaches the handler.
StartLogin(h) ==
    /\ pc[h] = "idle"
    /\ pc' = [pc EXCEPT ![h] = "upgrade"]
    /\ UNCHANGED <<gateVars, cmdVars, pingVars, sessionVars, connVars, clientVars, qrCode, discordUser,
                   emitted, sent, outcome, dialed, mutated, closedReads>>

\* c, err := upgrader.Upgrade(w, r, nil); on error return. Then the deferred
\* close is registered and the reader goroutine started.
Upgrade(h) ==
    /\ pc[h] = "upgrade"
    /\ \E r \in UpgradeOutcomes :
        IF r = "ok"
        THEN /\ conn' = [conn EXCEPT ![h] = "open"]
             /\ reader' = [reader EXCEPT ![h] = "reading"]
             /\ pc' = [pc EXCEPT ![h] = "setclose"]
             /\ UNCHANGED outcome
        ELSE /\ pc' = [pc EXCEPT ![h] = "done"]
             /\ outcome' = [outcome EXCEPT ![h] = "UpgradeFailed"]
             /\ UNCHANGED <<conn, reader>>
    /\ UNCHANGED <<gateVars, cmdVars, pingVars, sessionVars, peerClosed, cancelled, closedWaiting,
                   clientVars, qrCode, discordUser, emitted, sent, dialed,
                   mutated, closedReads>>

\* ctx, cancel := context.WithCancel(...); c.SetCloseHandler(... cancel() ...)
SetCloseHandler(h) ==
    /\ pc[h] = "setclose"
    /\ pc' = [pc EXCEPT ![h] = "check"]
    /\ UNCHANGED <<gateVars, cmdVars, pingVars, sessionVars, connVars, clientVars, qrCode, discordUser,
                   emitted, sent, outcome, dialed, mutated, closedReads>>

\* CheckLoggedIn without the return: the failure is written and the handler
\* goes on to build the client.
CheckLoggedInNoReturn(h) ==
    /\ pc[h] = "check"
    /\ IF loggedIn
       THEN WriteJSON(h, AlreadyLoggedInError)
       ELSE UNCHANGED sent
    /\ pc' = [pc EXCEPT ![h] = "new"]
    /\ UNCHANGED <<gateVars, cmdVars, pingVars, sessionVars, connVars, clientVars, qrCode,
                   discordUser, emitted, outcome, dialed, mutated, closedReads>>

\* if user.LoggedIn() { c.WriteJSON(Error{... "already logged in"}); return }
CheckLoggedIn(h) ==
    /\ pc[h] = "check"
    /\ IF loggedIn
       THEN /\ WriteJSON(h, AlreadyLoggedInError)
            /\ outcome' = [outcome EXCEPT ![h] = "AlreadyLoggedIn"]
            /\ pc' = [pc EXCEPT ![h] = "return"]
       ELSE /\ pc' = [pc EXCEPT ![h] = "new"]
            /\ UNCHANGED <<sent, outcome>>
    /\ UNCHANGED <<gateVars, cmdVars, pingVars, sessionVars, connVars, clientVars, qrCode, discordUser,
                   emitted, dialed, mutated, closedReads>>

\* client, err := remoteauth.New(); on error the failure message is written
\* and the handler goes on to the dial (there is no return).
NewClient(h) ==
    /\ pc[h] = "new"
    /\ \E r \in NewOutcomes :
        /\ client' = [client EXCEPT ![h] = r]
        /\ IF r = "err"
           THEN WriteJSON(h, ConnectionError)
           ELSE UNCHANGED sent
    /\ pc' = [pc EXCEPT ![h] = "dial"]
    /\ UNCHANGED <<gateVars, cmdVars, pingVars, sessionVars, connVars, clientPc, pendingCode, chansClosed,
                   doneFired, qrCode, discordUser, emitted, outcome, dialed,
                   mutated, closedReads>>

\* err = client.Dial(ctx, qrChan, doneChan); on error both channels are closed.
Dial(h) ==
    /\ pc[h] = "dial"
    /\ dialed' = [dialed EXCEPT ![h] = TRUE]
    /\ \E r \in DialOutcomes(client[h]) :
        CASE r = "ok" ->
                /\ clientPc' = [clientPc EXCEPT ![h] = "running"]
                /\ pc' = [pc EXCEPT ![h] = "select"]
                /\ UNCHANGED <<chansClosed, outcome>>
          [] r = "err" ->
                /\ chansClosed' = [chansClosed EXCEPT ![h] = TRUE]
                /\ pc' = [pc EXCEPT ![h] = "select"]
                /\ UNCHANGED <<clientPc, outcome>>
          [] r = "panic" ->
                /\ outcome' = [outcome EXCEPT ![h] = "Panicked"]
                /\ pc' = [pc EXCEPT ![h] = "return"]
                /\ UNCHANGED <<clientPc, chansClosed>>
    /\ UNCHANGED <<gateVars, cmdVars, pingVars, sessionVars, connVars, client, pendingCode, doneFired,
                   qrCode, discordUser, emitted, sent, mutated, closedReads>>

\* case qrCode, ok := <-qrChan with ok: the blocked sender's code is taken.
SelectQrCode(h) ==
    /\ pc[h] = "select"
    /\ clientPc[h] = "sending"
    /\ qrCode' = [qrCode EXCEPT ![h] = pendingCode[h]]
    /\ emitted' = [emitted EXCEPT ![h] = Append(@, pendingCode[h])]
    /\ pendingCode' = [pendingCode EXCEPT ![h] = NoCode]
    /\ clientPc' = [clientPc EXCEPT ![h] = "running"]
    /\ pc' = [pc EXCEPT ![h] = "writeCode"]
    /\ UNCHANGED <<gateVars, cmdVars, pingVars, sessionVars, connVars, client, chansClosed, doneFired,
                   discordUser, sent, outcome, dialed, mutated, closedReads>>

\* The qrChan case without the !ok check: the zero value is written as a code.
SelectQrClosedWrites(h) ==
    /\ pc[h] = "select"
    /\ chansClosed[h]
    /\ closedReads[h] < MaxClosedReads
    /\ closedReads' = [closedReads EXCEPT ![h] = @ + 1]
    /\ qrCode' = [qrCode EXCEPT ![h] = ""]
    /\ pc' = [pc EXCEPT ![h] = "writeCode"]
    /\ UNCHANGED <<gateVars, cmdVars, pingVars, sessionVars, connVars,
                   clientVars, discordUser, emitted, sent, outcome, dialed,
                   mutated>>

\* case qrCode, ok := <-qrChan with !ok: continue.
SelectQrClosed(h) ==
    /\ pc[h] = "select"
    /\ chansClosed[h]
    /\ closedReads[h] < MaxClosedReads
    /\ closedReads' = [closedReads EXCEPT ![h] = @ + 1]
    /\ UNCHANGED <<gateVars, cmdVars, pingVars, sessionVars, connVars, clientVars, pc, qrCode, discordUser,
                   emitted, sent, outcome, dialed, mutated>>

\* c.WriteJSON(map{"code": qrCode, "timeout": 120}), then back to the select.
WriteCode(h) ==
    /\ pc[h] = "writeCode"
    /\ WriteJSON(h, CodeMessage(qrCode[h]))
    /\ qrCode' = [qrCode EXCEPT ![h] = NoCode]
    /\ pc' = [pc EXCEPT ![h] = "select"]
    /\ UNCHANGED <<gateVars, cmdVars, pingVars, sessionVars, connVars, clientVars, discordUser, emitted,
                   outcome, dialed, mutated, closedReads>>

\* case <-doneChan, chosen among the ready cases.
SelectDone(h) ==
    /\ pc[h] = "select"
    /\ DoneReady(h)
    /\ pc' = [pc EXCEPT ![h] = "result"]
    /\ UNCHANGED <<gateVars, cmdVars, pingVars, sessionVars, connVars, clientVars, qrCode, discordUser,
                   emitted, sent, outcome, dialed, mutated, closedReads>>

\* case <-ctx.Done(): return, chosen among the ready cases.
SelectCtxDone(h) ==
    /\ pc[h] = "select"
    /\ CtxDone(h)
    /\ outcome' = [outcome EXCEPT ![h] = "Cancelled"]
    /\ pc' = [pc EXCEPT ![h] = "return"]
    /\ UNCHANGED <<gateVars, cmdVars, pingVars, sessionVars, connVars, clientVars, qrCode, discordUser,
                   emitted, sent, dialed, mutated, closedReads>>

\* Result with user.ID assigned before err is looked at.
ResultAssignFirst(h) ==
    /\ pc[h] = "result"
    /\ \E r \in ResultOutcomes(chansClosed[h]) :
        IF r = "err"
        THEN /\ userID' = ""
             /\ mutated' = [mutated EXCEPT ![h] = @ \cup {"ID"}]
             /\ WriteJSON(h, ConnectionError)
             /\ outcome' = [outcome EXCEPT ![h] = "FailedResult"]
             /\ pc' = [pc EXCEPT ![h] = "return"]
             /\ UNCHANGED discordUser
        ELSE /\ discordUser' = [discordUser EXCEPT ![h] = r]
             /\ pc' = [pc EXCEPT ![h] = "setID"]
             /\ UNCHANGED <<sent, outcome, userID, mutated>>
    /\ UNCHANGED <<gateVars, cmdVars, pingVars, persistedID, loggedIn, connVars, clientVars,
                   qrCode, emitted, dialed, closedReads>>

\* discordUser, err := client.Result(); on error the failure message, return.
Result(h) ==
    /\ pc[h] = "result"
    /\ \E r \in ResultOutcomes(chansClosed[h]) :
        IF r = "err"
        THEN /\ WriteJSON(h, ConnectionError)
             /\ outcome' = [outcome EXCEPT ![h] = "FailedResult"]
             /\ pc' = [pc EXCEPT ![h] = "return"]
             /\ UNCHANGED discordUser
        ELSE /\ discordUser' = [discordUser EXCEPT ![h] = r]
             /\ pc' = [pc EXCEPT ![h] = "setID"]
             /\ UNCHANGED <<sent, outcome>>
    /\ UNCHANGED <<gateVars, cmdVars, pingVars, sessionVars, connVars, clientVars, qrCode, emitted, dialed,
                   mutated, closedReads>>

\* user.ID = discordUser.UserID
SetUserID(h) ==
    /\ pc[h] = "setID"
    /\ userID' = discordUser[h]
    /\ mutated' = [mutated EXCEPT ![h] = @ \cup {"ID"}]
    /\ pc' = [pc EXCEPT ![h] = "update"]
    /\ UNCHANGED <<gateVars, cmdVars, pingVars, persistedID, loggedIn, connVars, clientVars, qrCode,
                   discordUser, emitted, sent, outcome, dialed, closedReads>>

\* user.Update(): the user record, with the ID it holds now, is stored.
Update(h) ==
    /\ pc[h] = "update"
    /\ persistedID' = userID
    /\ mutated' = [mutated EXCEPT ![h] = @ \cup {"Update"}]
    /\ pc' = [pc EXCEPT ![h] = "login"]
    /\ UNCHANGED <<gateVars, cmdVars, pingVars, userID, loggedIn, connVars, clientVars, qrCode,
                   discordUser, emitted, sent, outcome, dialed, closedReads>>

\* if err := user.Login(discordUser.Token); err != nil { failure; return }
Login(h) ==
    /\ pc[h] = "login"
    /\ \E r \in LoginOutcomes :
        IF r = "ok"
        THEN /\ loggedIn' = TRUE
             /\ mutated' = [mutated EXCEPT ![h] = @ \cup {"Login"}]
             /\ pc' = [pc EXCEPT ![h] = "success"]
             /\ UNCHANGED <<sent, outcome>>
        ELSE /\ WriteJSON(h, ConnectionError)
             /\ outcome' = [outcome EXCEPT ![h] = "FailedLogin"]
             /\ pc' = [pc EXCEPT ![h] = "return"]
             /\ UNCHANGED <<loggedIn, mutated>>
    /\ UNCHANGED <<gateVars, cmdVars, pingVars, userID, persistedID, connVars, clientVars, qrCode,
                   discordUser, emitted, dialed, closedReads>>

\* WriteSuccess without the return: the loop goes back to the select.
WriteSuccessNoReturn(h) ==
    /\ pc[h] = "success"
    /\ WriteJSON(h, SuccessMessage(userID))
    /\ outcome' = [outcome EXCEPT ![h] = "Succeeded"]
    /\ pc' = [pc EXCEPT ![h] = "select"]
    /\ UNCHANGED <<gateVars, cmdVars, pingVars, sessionVars, connVars, clientVars, qrCode,
                   discordUser, emitted, dialed, mutated, closedReads>>

\* c.WriteJSON(map{"success": true, "id": user.ID}); return
WriteSuccess(h) ==
    /\ pc[h] = "success"
    /\ WriteJSON(h, SuccessMessage(userID))
    /\ outcome' = [outcome EXCEPT ![h] = "Succeeded"]
    /\ pc' = [pc EXCEPT ![h] = "return"]
    /\ UNCHANGED <<gateVars, cmdVars, pingVars, sessionVars, connVars, clientVars, qrCode, discordUser,
                   emitted, dialed, mutated, closedReads>>

\* The deferred c.Close() runs as the handler returns (or panics).
Return(h) ==
    /\ pc[h] = "return"
    /\ conn' = [conn EXCEPT ![h] = "closed"]
    /\ pc' = [pc EXCEPT ![h] = "done"]
    /\ UNCHANGED <<gateVars, cmdVars, pingVars, sessionVars, peerClosed, reader, cancelled,
                   closedWaiting, clientVars, qrCode, discordUser, emitted,
                   sent, outcome, dialed, mutated, closedReads>>

(* ------------------------------------------------------------------ *)
(* The peer and the reader goroutine, lines 269-286                   *)
(* ------------------------------------------------------------------ *)

\* The peer closes its side of the websocket (sends a close frame).
PeerClose(h) ==
    /\ conn[h] = "open"
    /\ ~peerClosed[h]
    /\ peerClosed' = [peerClosed EXCEPT ![h] = TRUE]
    /\ UNCHANGED <<gateVars, cmdVars, pingVars, sessionVars, pc, conn, reader, cancelled,
                   closedWaiting, clientVars, qrCode, discordUser, emitted,
                   sent, outcome, dialed, mutated, closedReads>>

\* The reader with a close handler that does not call cancel().
ReadCloseNoCancel(h) ==
    /\ reader[h] = "reading"
    /\ peerClosed[h]
    /\ conn[h] = "open"
    /\ reader' = [reader EXCEPT ![h] = "exited"]
    /\ UNCHANGED <<gateVars, cmdVars, pingVars, sessionVars, conn, peerClosed,
                   cancelled, closedWaiting, pc, outcome, clientVars, qrCode,
                   discordUser, emitted, sent, dialed, mutated, closedReads>>

\* c.ReadMessage() reads the close frame: the close handler that is set runs
\* (cancel(), once SetCloseHandler has run), ReadMessage returns an error and
\* the reader loop breaks. A handler parked in the select wakes on ctx.Done().
ReadClose(h) ==
    /\ reader[h] = "reading"
    /\ peerClosed[h]
    /\ conn[h] = "open"
    /\ reader' = [reader EXCEPT ![h] = "exited"]
    /\ IF pc[h] = "setclose"
       THEN UNCHANGED <<cancelled, closedWaiting, pc, outcome>>
       ELSE /\ cancelled' = [cancelled EXCEPT ![h] = TRUE]
            /\ closedWaiting' =
                   [closedWaiting EXCEPT
                      ![h] = pc[h] \in {"select", "writeCode"} /\ ~DoneReady(h)]
            /\ IF Blocked(h)
               THEN /\ outcome' = [outcome EXCEPT ![h] = "Cancelled"]
                    /\ pc' = [pc EXCEPT ![h] = "return"]
               ELSE UNCHANGED <<pc, outcome>>
    /\ UNCHANGED <<gateVars, cmdVars, pingVars, sessionVars, conn, peerClosed, clientVars, qrCode,
                   discordUser, emitted, sent, dialed, mutated, closedReads>>

(* ------------------------------------------------------------------ *)
(* The remote-auth client's goroutine                                 *)
(* ------------------------------------------------------------------ *)

\* The client sends a code on the unbuffered qrChan: a handler parked in the
\* select takes it at once, otherwise the client blocks in the send.
ClientSend(h, c) ==
    /\ clientPc[h] = "running"
    /\ pc[h] \notin {"return", "done"}
    /\ Len(emitted[h]) < MaxCodes
    /\ IF Blocked(h)
       THEN /\ qrCode' = [qrCode EXCEPT ![h] = c]
            /\ emitted' = [emitted EXCEPT ![h] = Append(@, c)]
            /\ pc' = [pc EXCEPT ![h] = "writeCode"]
            /\ UNCHANGED <<clientPc, pendingCode>>
       ELSE /\ clientPc' = [clientPc EXCEPT ![h] = "sending"]
            /\ pendingCode' = [pendingCode EXCEPT ![h] = c]
            /\ UNCHANGED <<qrCode, emitted, pc>>
    /\ UNCHANGED <<gateVars, cmdVars, pingVars, sessionVars, connVars, client, chansClosed, doneFired,
                   discordUser, sent, outcome, dialed, mutated, closedReads>>

\* The client finishes and closes doneChan: a handler parked in the select
\* wakes on the doneChan case.
ClientFinish(h) ==
    /\ clientPc[h] = "running"
    /\ pc[h] \notin {"return", "done"}
    /\ clientPc' = [clientPc EXCEPT ![h] = "finished"]
    /\ doneFired' = [doneFired EXCEPT ![h] = TRUE]
    /\ IF Blocked(h)
       THEN pc' = [pc EXCEPT ![h] = "result"]
       ELSE UNCHANGED pc
    /\ UNCHANGED <<gateVars, cmdVars, pingVars, sessionVars, connVars, client, pendingCode, chansClosed,
                   qrCode, discordUser, emitted, sent, outcome, dialed,
                   mutated, closedReads>>

(* ------------------------------------------------------------------ *)
(* Strings, as sequences of characters                                *)
(* ------------------------------------------------------------------ *)

\* const SecWebSocketProtocol = "com.gitlab.beeper.discord"
SecWebSocketProtocol ==
    <<"c", "o", "m", ".", "g", "i", "t", "l", "a", "b", ".", "b", "e", "e", "p", "e", "r", ".", "d", "i", "s", "c", "o", "r", "d">>

\* "Bearer "
BearerPrefix == <<"B", "e", "a", "r", "e", "r", " ">>

\* "/login"
LoginSuffix == <<"/", "l", "o", "g", "i", "n">>

\* strings.HasPrefix(s, prefix)
HasPrefix(s, prefix) ==
    /\ Len(s) >= Len(prefix)
    /\ SubSeq(s, 1, Len(prefix)) = prefix

\* strings.HasSuffix(s, suffix)
HasSuffix(s, suffix) ==
    /\ Len(s) >= Len(suffix)
    /\ SubSeq(s, Len(s) - Len(suffix) + 1, Len(s)) = suffix

\* s[n:]
DropPrefix(s, n) == SubSeq(s, n + 1, Len(s))

\* strings.Split(s, ","): the pieces between the commas, <<"">> for "".
\* The position of the first "," at or after i, or Len(s) + 1 without one.
NextComma(s, i) ==
    LET commas == {j \in i..Len(s) : s[j] = ","}
    IN IF commas = {} THEN Len(s) + 1
       ELSE CHOOSE j \in commas : \A k \in commas : j <= k

RECURSIVE SplitFrom(_, _)
SplitFrom(s, i) ==
    LET j == NextComma(s, i)
    IN IF j > Len(s) THEN <<SubSeq(s, i, Len(s))>>
       ELSE <<SubSeq(s, i, j - 1)>> \o SplitFrom(s, j + 1)

Split(s) == SplitFrom(s, 1)

\* strings.TrimSpace(s)
RECURSIVE TrimLeft(_)
TrimLeft(s) ==
    IF s # <<>> /\ Head(s) = " " THEN TrimLeft(Tail(s)) ELSE s

RECURSIVE TrimRight(_)
TrimRight(s) ==
    IF s # <<>> /\ s[Len(s)] = " " THEN TrimRight(SubSeq(s, 1, Len(s) - 1)) ELSE s

TrimSpace(s) == TrimRight(TrimLeft(s))

(* ------------------------------------------------------------------ *)
(* The auth middleware, lines 101-139                                 *)
(* ------------------------------------------------------------------ *)

\* http.StatusForbidden
StatusForbidden == 403

\* The body of the 403 response (lines 121-124).
ForbiddenBody ==
    [error |-> "Invalid auth token", errcode |-> "M_FORBIDDEN"]

\* The loop of lines 108-115: the token of the first part, trimmed, that starts
\* with SecWebSocketProtocol + "-"; auth is left as it was if there is none.
RECURSIVE ProtocolToken(_, _)
ProtocolToken(authParts, auth) ==
    IF authParts = <<>> THEN auth
    ELSE LET part == TrimSpace(Head(authParts))
             prefix == Append(SecWebSocketProtocol, "-")
         IN IF HasPrefix(part, prefix)
            THEN DropPrefix(part, Len(prefix))
            ELSE ProtocolToken(Tail(authParts), auth)

\* The login special case without the test of the path.
IsLoginUpgradeAnyPath(auth, path) ==
    auth = <<>>

\* Whether the request is special-cased as the login endpoint (line 106).
IsLoginUpgrade(auth, path) ==
    auth = <<>> /\ HasSuffix(path, LoginSuffix)

\* Lines 103-118: the token the middleware compares with the shared secret.
AuthToken(req) ==
    LET auth == req.authorization
    IN IF IsLoginUpgrade(auth, req.path)
       THEN ProtocolToken(Split(req.protocol), auth)
       ELSE IF HasPrefix(auth, BearerPrefix)
            THEN DropPrefix(auth, Len(BearerPrefix))
            ELSE auth

\* The comparison as a prefix test instead of equality.
TokenRejectedPrefix(auth, sharedSecret) == ~HasPrefix(auth, sharedSecret)

\* auth != p.bridge.Config.Appservice.Provisioning.SharedSecret (line 120)
TokenRejected(auth, sharedSecret) == auth # sharedSecret

\* The handler the middleware returns, run on one request: 403 and return
\* when the token is not the shared secret, else h.ServeHTTP.
AuthMiddleware(req) ==
    /\ request' = req
    /\ IF TokenRejected(AuthToken(req), secret)
       THEN /\ response' = [status |-> StatusForbidden, body |-> ForbiddenBody]
            /\ served' = FALSE
       ELSE /\ response' = NoResponse
            /\ served' = TRUE
    /\ UNCHANGED <<secret, loginVars, cmdVars, pingVars>>

(* ------------------------------------------------------------------ *)
(* Requests                                                           *)
(* ------------------------------------------------------------------ *)

\* strings.Join(parts, sep)
RECURSIVE Join(_, _)
Join(parts, sep) ==
    IF parts = <<>> THEN <<>>
    ELSE IF Len(parts) = 1 THEN Head(parts)
    ELSE Head(parts) \o sep \o Join(Tail(parts), sep)

\* Entries a client may offer in Sec-WebSocket-Protocol.
PartValues ==
    {SecWebSocketProtocol}
        \cup {Append(SecWebSocketProtocol, "-") \o t : t \in Tokens}

Separators == {<<",">>, <<",", " ">>}

ProtocolValues ==
    {Join(parts, sep) :
        parts \in UNION {[1..n -> PartValues] : n \in 0..MaxParts},
        sep \in Separators}

AuthorizationValues ==
    {<<>>} \cup Tokens \cup {BearerPrefix \o t : t \in Tokens \cup {<<>>}}

Requests ==
    [authorization : AuthorizationValues, protocol : ProtocolValues, path : Paths]

(* ------------------------------------------------------------------ *)
(* The command handlers: disconnect, logout, reconnect                *)
(* ------------------------------------------------------------------ *)

\* http.StatusOK, StatusNotFound, StatusConflict, StatusInternalServerError
StatusOK == 200

StatusNotFound == 404

StatusConflict == 409

StatusInternalServerError == 500

\* Response{Success: true, Status: status}
Response(status) ==
    [success |-> TRUE, status |-> status]

\* Error{Error: message, ErrCode: errcode}: Success is left false.
Error(message, errcode) ==
    [success |-> FALSE, error |-> message, errcode |-> errcode]

\* jsonResponse(w, status, body)
JsonResponse(r, status, body) ==
    cmdResp' = [cmdResp EXCEPT ![r] = [status |-> status, body |-> body]]

\* user.Disconnect, user.Connect, user.Logout: done, or an error that leaves
\* the session as it was.
DisconnectOutcomes == {"ok", "err"}

ConnectOutcomes == {"ok", "err"}

LogoutOutcomes == {"ok", "err"}

\* strings.ToLower, on the letters the force values use.
LowerChar(c) ==
    CASE c = "F" -> "f"
      [] c = "A" -> "a"
      [] c = "L" -> "l"
      [] c = "S" -> "s"
      [] c = "E" -> "e"
      [] OTHER -> c

ToLower(s) == [i \in 1..Len(s) |-> LowerChar(s[i])]

\* force compared with "false" without strings.ToLower.
ForceCaseSensitive(query) ==
    query # <<"f", "a", "l", "s", "e">>

\* force := strings.ToLower(r.URL.Query().Get("force")) != "false"
Force(query) ==
    ToLower(query) # <<"f", "a", "l", "s", "e">>

\* A request reaches one of the three handlers.
StartCommand(r, kind, query) ==
    /\ cmdPc[r] = "idle"
    /\ cmdKind' = [cmdKind EXCEPT ![r] = kind]
    /\ cmdForce' = [cmdForce EXCEPT ![r] = query]
    /\ cmdPc' = [cmdPc EXCEPT ![r] = "check"]
    /\ UNCHANGED <<gateVars, loginVars, pingVars, connected, hasSession,
                   cmdResp, cmdCalls, cmdErr, disconnects, connects>>

\* disconnect with the return after the 409 response left out.
DisconnectCheckNoReturn(r) ==
    /\ cmdKind[r] = "disconnect"
    /\ cmdPc[r] = "check"
    /\ IF ~connected
       THEN JsonResponse(r, StatusConflict,
                Error("You're not connected to discord", "not connected"))
       ELSE UNCHANGED cmdResp
    /\ cmdPc' = [cmdPc EXCEPT ![r] = "call"]
    /\ UNCHANGED <<gateVars, loginVars, pingVars, connected, hasSession,
                   cmdKind, cmdForce, cmdCalls, cmdErr, disconnects,
                   connects>>

\* disconnect: if !user.Connected() { 409; return }
DisconnectCheck(r) ==
    /\ cmdKind[r] = "disconnect"
    /\ cmdPc[r] = "check"
    /\ IF ~connected
       THEN /\ JsonResponse(r, StatusConflict,
                   Error("You're not connected to discord", "not connected"))
            /\ cmdPc' = [cmdPc EXCEPT ![r] = "done"]
       ELSE /\ cmdPc' = [cmdPc EXCEPT ![r] = "call"]
            /\ UNCHANGED cmdResp
    /\ UNCHANGED <<gateVars, loginVars, pingVars, connected, hasSession,
                   cmdKind, cmdForce, cmdCalls, cmdErr, disconnects,
                   connects>>

\* disconnect: if err := user.Disconnect(); err != nil { 500 } else { 200 }
DisconnectCall(r) ==
    /\ cmdKind[r] = "disconnect"
    /\ cmdPc[r] = "call"
    /\ cmdCalls' = [cmdCalls EXCEPT ![r] = @ + 1]
    /\ \E o \in DisconnectOutcomes :
        /\ cmdErr' = [cmdErr EXCEPT ![r] = o]
        /\ IF o = "ok"
           THEN /\ connected' = FALSE
                /\ hasSession' = FALSE
                /\ disconnects' = IF connected THEN disconnects + 1 ELSE disconnects
                /\ JsonResponse(r, StatusOK, Response("Disconnected from Discord"))
           ELSE /\ JsonResponse(r, StatusInternalServerError,
                       Error("Failed to disconnect from discord", "failed to disconnect"))
                /\ UNCHANGED <<connected, hasSession, disconnects>>
    /\ cmdPc' = [cmdPc EXCEPT ![r] = "done"]
    /\ UNCHANGED <<gateVars, loginVars, pingVars, cmdKind, cmdForce, connects>>

\* reconnect with the Connected check inverted.
ReconnectCheckInverted(r) ==
    /\ cmdKind[r] = "reconnect"
    /\ cmdPc[r] = "check"
    /\ IF ~connected
       THEN /\ JsonResponse(r, StatusConflict,
                   Error("You're already connected to discord", "already connected"))
            /\ cmdPc' = [cmdPc EXCEPT ![r] = "done"]
       ELSE /\ cmdPc' = [cmdPc EXCEPT ![r] = "call"]
            /\ UNCHANGED cmdResp
    /\ UNCHANGED <<gateVars, loginVars, pingVars, connected, hasSession,
                   cmdKind, cmdForce, cmdCalls, cmdErr, disconnects,
                   connects>>

\* reconnect: if user.Connected() { 409; return }
ReconnectCheck(r) ==
    /\ cmdKind[r] = "reconnect"
    /\ cmdPc[r] = "check"
    /\ IF connected
       THEN /\ JsonResponse(r, StatusConflict,
                   Error("You're already connected to discord", "already connected"))
            /\ cmdPc' = [cmdPc EXCEPT ![r] = "done"]
       ELSE /\ cmdPc' = [cmdPc EXCEPT ![r] = "call"]
            /\ UNCHANGED cmdResp
    /\ UNCHANGED <<gateVars, loginVars, pingVars, connected, hasSession,
                   cmdKind, cmdForce, cmdCalls, cmdErr, disconnects,
                   connects>>

\* reconnect: if err := user.Connect(); err != nil { 500 } else { 200 }
ReconnectCall(r) ==
    /\ cmdKind[r] = "reconnect"
    /\ cmdPc[r] = "call"
    /\ cmdCalls' = [cmdCalls EXCEPT ![r] = @ + 1]
    /\ \E o \in ConnectOutcomes :
        /\ cmdErr' = [cmdErr EXCEPT ![r] = o]
        /\ IF o = "ok"
           THEN /\ connected' = TRUE
                /\ hasSession' = TRUE
                /\ connects' = IF connected THEN connects ELSE connects + 1
                /\ JsonResponse(r, StatusOK, Response("Connected to Discord"))
           ELSE /\ JsonResponse(r, StatusInternalServerError,
                       Error("Failed to connect to discord", "failed to connect"))
                /\ UNCHANGED <<connected, hasSession, connects>>
    /\ cmdPc' = [cmdPc EXCEPT ![r] = "done"]
    /\ UNCHANGED <<gateVars, loginVars, pingVars, cmdKind, cmdForce, disconnects>>

\* logout: if !user.LoggedIn() { 404; return }
LogoutCheck(r) ==
    /\ cmdKind[r] = "logout"
    /\ cmdPc[r] = "check"
    /\ IF ~loggedIn
       THEN /\ JsonResponse(r, StatusNotFound,
                   Error("You're not logged in", "not logged in"))
            /\ cmdPc' = [cmdPc EXCEPT ![r] = "done"]
       ELSE /\ cmdPc' = [cmdPc EXCEPT ![r] = "session"]
            /\ UNCHANGED cmdResp
    /\ UNCHANGED <<gateVars, loginVars, pingVars, connected, hasSession,
                   cmdKind, cmdForce, cmdCalls, cmdErr, disconnects,
                   connects>>

\* logout: if user.Session == nil { 200 when force, else 404; return }
LogoutSession(r) ==
    /\ cmdKind[r] = "logout"
    /\ cmdPc[r] = "session"
    /\ IF ~hasSession
       THEN /\ IF Force(cmdForce[r])
               THEN JsonResponse(r, StatusOK, Response("Logged out successfully."))
               ELSE JsonResponse(r, StatusNotFound,
                        Error("You're not logged in", "not logged in"))
            /\ cmdPc' = [cmdPc EXCEPT ![r] = "done"]
       ELSE /\ cmdPc' = [cmdPc EXCEPT ![r] = "call"]
            /\ UNCHANGED cmdResp
    /\ UNCHANGED <<gateVars, loginVars, pingVars, connected, hasSession,
                   cmdKind, cmdForce, cmdCalls, cmdErr, disconnects,
                   connects>>

\* logout: err := user.Logout(); 500 when err != nil and !force, else 200
LogoutCall(r) ==
    /\ cmdKind[r] = "logout"
    /\ cmdPc[r] = "call"
    /\ cmdCalls' = [cmdCalls EXCEPT ![r] = @ + 1]
    /\ \E o \in LogoutOutcomes :
        /\ cmdErr' = [cmdErr EXCEPT ![r] = o]
        /\ IF o = "ok"
           THEN /\ loggedIn' = FALSE
                /\ connected' = FALSE
                /\ hasSession' = FALSE
                /\ disconnects' = IF connected THEN disconnects + 1 ELSE disconnects
                /\ JsonResponse(r, StatusOK, Response("Logged out successfully."))
           ELSE /\ IF ~Force(cmdForce[r])
                   THEN JsonResponse(r, StatusInternalServerError,
                            Error("Unknown error while logging out", "logout error"))
                   ELSE JsonResponse(r, StatusOK, Response("Logged out successfully."))
                /\ UNCHANGED <<loggedIn, connected, hasSession, disconnects>>
    /\ cmdPc' = [cmdPc EXCEPT ![r] = "done"]
    /\ UNCHANGED <<gateVars, handshakeVars, userID, persistedID, pingVars,
                   cmdKind, cmdForce, connects>>

(* ------------------------------------------------------------------ *)
(* The ping handler                                                   *)
(* ------------------------------------------------------------------ *)

\* What a read of user.ID that overlaps a write of it may return besides the
\* old and the new value: a string header whose pointer and length disagree.
TornID == "torn"

\* A handshake is at the assignment of user.ID.
Writers == {h \in Handlers : pc[h] = "setID"}

\* ping: read LoggedIn() and Connected() into the discord map.
PingStart(p) ==
    /\ pingPc[p] = "idle"
    /\ pingPc' = [pingPc EXCEPT ![p] = "lock"]
    /\ UNCHANGED <<gateVars, loginVars, cmdVars, lock, pingID>>

\* ping: user.Lock()
PingLock(p) ==
    /\ pingPc[p] = "lock"
    /\ lock = "none"
    /\ lock' = p
    /\ pingPc' = [pingPc EXCEPT ![p] = "readID"]
    /\ UNCHANGED <<gateVars, loginVars, cmdVars, pingID>>

\* ping: if user.ID != "" { discord["id"] = user.ID }.  login writes user.ID
\* without the lock, so the read may overlap the write.
PingReadID(p) ==
    /\ pingPc[p] = "readID"
    /\ \E id \in {userID} \cup {discordUser[h] : h \in Writers}
                 \cup (IF Writers = {} THEN {} ELSE {TornID}) :
          pingID' = [pingID EXCEPT ![p] = id]
    /\ pingPc' = [pingPc EXCEPT ![p] = "unlock"]
    /\ UNCHANGED <<gateVars, loginVars, cmdVars, lock>>

\* ping: read the session and the user's rooms, user.Unlock(), respond 200.
PingUnlock(p) ==
    /\ pingPc[p] = "unlock"
    /\ lock' = "none"
    /\ pingPc' = [pingPc EXCEPT ![p] = "done"]
    /\ UNCHANGED <<gateVars, loginVars, cmdVars, pingID>>

(* ------------------------------------------------------------------ *)
(* Specification                                                      *)
(* ------------------------------------------------------------------ *)

Next ==
    \/ \E h \in Handlers : StartLogin(h)
    \/ \E h \in Handlers : Upgrade(h)
    \/ \E h \in Handlers : SetCloseHandler(h)
    \/ \E h \in Handlers : CheckLoggedIn(h)
    \/ \E h \in Handlers : NewClient(h)
    \/ \E h \in Handlers : Dial(h)
    \/ \E h \in Handlers : SelectQrCode(h)
    \/ \E h \in Handlers : SelectQrClosed(h)
    \/ \E h \in Handlers : WriteCode(h)
    \/ \E h \in Handlers : SelectDone(h)
    \/ \E h \in Handlers : SelectCtxDone(h)
    \/ \E h \in Handlers : Result(h)
    \/ \E h \in Handlers : SetUserID(h)
    \/ \E h \in Handlers : Update(h)
    \/ \E h \in Handlers : Login(h)
    \/ \E h \in Handlers : WriteSuccess(h)
    \/ \E h \in Handlers : Return(h)
    \/ \E h \in Handlers : PeerClose(h)
    \/ \E h \in Handlers : ReadClose(h)
    \/ \E h \in Handlers, c \in Codes : ClientSend(h, c)
    \/ \E h \in Handlers : ClientFinish(h)

Spec == Init /\ [][Next]_vars

\* The middleware alone, over the requests and the shared secrets.
InitAuth ==
    /\ InitLogin
    /\ InitGate
    /\ InitCmd
    /\ InitPing
    /\ secret \in Secrets
    /\ connected = loggedIn
    /\ hasSession = loggedIn

NextAuth ==
    \E req \in Requests : AuthMiddleware(req)

SpecAuth == InitAuth /\ [][NextAuth]_vars

\* The steps of the handler goroutine of one login request.
HandlerStep(h) ==
    \/ Upgrade(h)
    \/ SetCloseHandler(h)
    \/ CheckLoggedIn(h)
    \/ NewClient(h)
    \/ Dial(h)
    \/ SelectQrCode(h)
    \/ SelectQrClosed(h)
    \/ WriteCode(h)
    \/ SelectDone(h)
    \/ SelectCtxDone(h)
    \/ Result(h)
    \/ SetUserID(h)
    \/ Update(h)
    \/ Login(h)
    \/ WriteSuccess(h)
    \/ Return(h)

\* What the peer and the remote-auth client do to one login request.
EnvStep(h) ==
    \/ StartLogin(h)
    \/ PeerClose(h)
    \/ \E c \in Codes : ClientSend(h, c)
    \/ ClientFinish(h)

\* One login request served next to ping requests.
PingHandlers == {"h1"}

NextPing ==
    \/ \E h \in PingHandlers : HandlerStep(h)
    \/ \E h \in PingHandlers : ReadClose(h)
    \/ \E h \in PingHandlers : EnvStep(h)
    \/ \E p \in Pings : PingStart(p)
    \/ \E p \in Pings : PingLock(p)
    \/ \E p \in Pings : PingReadID(p)
    \/ \E p \in Pings : PingUnlock(p)

SpecPing == Init /\ [][NextPing]_vars

\* One login request under fair scheduling: the handler goroutine keeps
\* running while it can, a select with a ready completion or cancellation
\* case does not pass it over for ever, and the reader goroutine reads a
\* frame that stays available.  The peer and the remote-auth client owe
\* nothing.  A select that keeps taking the closed qrChan case past
\* MaxClosedReads changes no variable and is a stuttering step here.
FairHandlers == {"h1"}

NextFair ==
    \/ \E h \in FairHandlers : HandlerStep(h)
    \/ \E h \in FairHandlers : ReadClose(h)
    \/ \E h \in FairHandlers : EnvStep(h)

Fairness ==
    \A h \in FairHandlers :
        /\ WF_vars(HandlerStep(h))
        /\ WF_vars(SelectDone(h))
        /\ WF_vars(SelectCtxDone(h))
        /\ WF_vars(ReadClose(h))

SpecFair == Init /\ [][NextFair]_vars /\ Fairness

\* The command handlers, over every state of the session: logged out, logged
\* in without a connection, logged in and connected.
InitCmdSpec ==
    /\ InitLogin
    /\ InitGate
    /\ InitCmd
    /\ InitPing
    /\ secret = LoginSecret
    /\ connected \in BOOLEAN
    /\ connected => loggedIn
    /\ hasSession = connected

NextCmd ==
    \/ \E r \in CmdRequests : StartCommand(r, "disconnect", <<>>)
    \/ \E r \in CmdRequests : StartCommand(r, "reconnect", <<>>)
    \/ \E r \in CmdRequests, q \in ForceQueries : StartCommand(r, "logout", q)
    \/ \E r \in CmdRequests : DisconnectCheck(r)
    \/ \E r \in CmdRequests : DisconnectCall(r)
    \/ \E r \in CmdRequests : ReconnectCheck(r)
    \/ \E r \in CmdRequests : ReconnectCall(r)
    \/ \E r \in CmdRequests : LogoutCheck(r)
    \/ \E r \in CmdRequests : LogoutSession(r)
    \/ \E r \in CmdRequests : LogoutCall(r)

SpecCmd == InitCmdSpec /\ [][NextCmd]_vars

(* ------------------------------------------------------------------ *)
(* Properties of the login handshake                                  *)
(* ------------------------------------------------------------------ *)

\* The code messages for a sequence of codes, in order.
CodeMessages(codes) ==
    [i \in 1..Len(codes) |-> CodeMessage(codes[i])]

\* The terminal messages among those written by handler h.
TerminalMessages(h) ==
    {i \in 1..Len(sent[h]) : IsTerminalMessage(sent[h][i])}

\* Handler h is past the LoggedIn() check and has not reached a terminal outcome.
Live(h) ==
    pc[h] \in {"new", "dial", "select", "writeCode", "result", "setID",
               "update", "login", "success"}

\* C1: a handshake that succeeded wrote one {code, timeout: 120} message per
\* code taken from qrChan, in the order the codes were sent, then exactly one
\* {success: true, id} message, and nothing after it.
C1_CodesThenSuccess ==
    \A h \in Handlers :
        outcome[h] = "Succeeded" =>
            /\ Len(sent[h]) = Len(emitted[h]) + 1
            /\ SubSeq(sent[h], 1, Len(emitted[h])) = CodeMessages(emitted[h])
            /\ IsSuccessMessage(sent[h][Len(sent[h])])
            /\ \A i \in 1..Len(emitted[h]) : sent[h][i].timeout = 120

\* C1 witness: a handler has returned after two different codes and a success.
C1_Witness ==
    \E h \in Handlers :
        /\ pc[h] = "done"
        /\ outcome[h] = "Succeeded"
        /\ Len(emitted[h]) = 2
        /\ emitted[h][1] # emitted[h][2]
        /\ Len(sent[h]) = 3

\* C2: at most one login handshake for the user is live at any time.
C2_AtMostOneLive ==
    Cardinality({h \in Handlers : Live(h)}) <= 1

\* C3 as stated: a handshake that ended in Failed (Result error or user.Login
\* error) or Cancelled made no write to the session.
C3_MutatesOnlyOnSuccess ==
    \A h \in Handlers :
        outcome[h] \in {"FailedResult", "FailedLogin", "Cancelled"} =>
            mutated[h] = {}

\* C3 amended: the handshake writes to the session only after Result has
\* returned without error: a handshake that ended because the user was already
\* logged in, because Result returned an error, or in Cancelled made no write;
\* one that ended because user.Login returned an error has written user.ID and
\* called user.Update, and has not logged the user in.
C3_MutatesOnlyAfterResult ==
    \A h \in Handlers :
        /\ outcome[h] \in {"AlreadyLoggedIn", "FailedResult", "Cancelled"} =>
              mutated[h] = {}
        /\ outcome[h] = "FailedLogin" => mutated[h] = {"ID", "Update"}
        /\ outcome[h] = "Succeeded" => mutated[h] = {"ID", "Update", "Login"}
        /\ mutated[h] # {} => discordUser[h] \in Identities

\* C3 witness: a handshake was cancelled after a code was relayed, and one
\* failed in user.Login, each returned.
C3_Witness ==
    \E h, g \in Handlers :
        /\ pc[h] = "done" /\ outcome[h] = "Cancelled" /\ emitted[h] # <<>>
        /\ pc[g] = "done" /\ outcome[g] = "FailedLogin"
        /\ userID = discordUser[g]

\* C4: a handshake whose peer close was observed while it was in the select
\* loop, before doneChan was closed, ends in Cancelled with the session
\* untouched by it.
C4_CloseEndsInCancelled ==
    \A h \in Handlers :
        (closedWaiting[h] /\ pc[h] = "done") =>
            /\ outcome[h] = "Cancelled"
            /\ mutated[h] = {}

\* C5: once cancel() has been called for a handshake, that handshake makes no
\* write to user.ID and no call of user.Update or user.Login.
C5_NoMutationAfterCancel ==
    [][\A h \in Handlers : cancelled[h] => mutated'[h] = mutated[h]]_vars

\* Handler h has written the "already logged in" failure.
WroteAlreadyLoggedIn(h) ==
    \E i \in 1..Len(sent[h]) : sent[h][i] = AlreadyLoggedInError

\* C6: when user.LoggedIn() is true at the check, the handler writes the
\* "already logged in" failure as its only message and returns; once that
\* failure is written there is no dial and no other write, and the handler
\* ends with the websocket closed.
C6_AlreadyLoggedInRejected ==
    [][\A h \in Handlers :
          /\ (pc[h] = "check" /\ loggedIn /\ pc'[h] # "check") =>
                /\ sent'[h] = <<AlreadyLoggedInError>>
                /\ pc'[h] = "return"
                /\ ~dialed'[h]
          /\ WroteAlreadyLoggedIn(h) =>
                /\ sent'[h] = sent[h]
                /\ dialed'[h] = dialed[h]
                /\ ~dialed[h]
                /\ pc'[h] \in {"return", "done"}
                /\ (pc'[h] = "done" => conn'[h] = "closed")]_vars

\* C6 witness: a login that found the user logged in by an earlier handshake
\* has returned after its one failure message, its websocket closed.
C6_Witness ==
    \E h, g \in Handlers :
        /\ outcome[g] = "Succeeded"
        /\ pc[h] = "done"
        /\ sent[h] = <<AlreadyLoggedInError>>
        /\ ~dialed[h]
        /\ conn[h] = "closed"

\* C7: a handshake whose dial returned an error, and whose peer stayed
\* connected, returns having written exactly one message, the "connection
\* error" failure, and so no code message.
C7_DialErrorOneFailure ==
    \A h \in Handlers :
        (chansClosed[h] /\ ~peerClosed[h] /\ pc[h] = "done") =>
            sent[h] = <<ConnectionError>>

\* C8: every handshake that has returned has one terminal outcome, and no
\* handshake writes more than one terminal message.
C8_OneTerminalMessage ==
    \A h \in Handlers :
        /\ pc[h] = "done" => outcome[h] # "none"
        /\ Cardinality(TerminalMessages(h)) <= 1

\* C9: a handler that upgraded the connection has closed it when it is done,
\* and a terminal message is the last message written to the connection.
C9_ClosedAfterTerminal ==
    \A h \in Handlers :
        /\ (pc[h] = "done" /\ outcome[h] # "UpgradeFailed") => conn[h] = "closed"
        /\ \A i \in TerminalMessages(h) : i = Len(sent[h])
        /\ conn[h] = "closed" => pc[h] = "done"

(* ------------------------------------------------------------------ *)
(* Properties of the auth middleware                                  *)
(* ------------------------------------------------------------------ *)

\* The request presents the secret s: as the Authorization header, bare or
\* after "Bearer ", or, on a login path with no Authorization header, as an
\* entry "com.gitlab.beeper.discord-<s>" of Sec-WebSocket-Protocol.
PresentsSecret(req, s) ==
    \/ req.authorization = s
    \/ req.authorization = BearerPrefix \o s
    \/ /\ req.authorization = <<>>
       /\ HasSuffix(req.path, LoginSuffix)
       /\ \E i \in 1..Len(Split(req.protocol)) :
             TrimSpace(Split(req.protocol)[i])
                 = Append(SecWebSocketProtocol, "-") \o s

\* C10: a request that does not present the shared secret is answered with
\* 403 and the wrapped handler is not called, on every path and for both
\* token forms.
C10_MismatchForbidden ==
    (request # NoRequest /\ ~PresentsSecret(request, secret)) =>
        /\ response # NoResponse
        /\ response.status = 403
        /\ ~served

\* C10 witness: a login request whose subprotocol list embeds a token that is
\* not the secret was answered 403; its list also offers the bare protocol.
C10_Witness ==
    /\ request # NoRequest
    /\ request.authorization = <<>>
    /\ HasSuffix(request.path, LoginSuffix)
    /\ Len(Split(request.protocol)) = 2
    /\ ProtocolToken(Split(request.protocol), <<>>) \in Tokens \ {secret}
    /\ response # NoResponse
    /\ response.status = 403
    /\ ~served

\* Only disconnect requests have arrived.
OnlyDisconnects ==
    \A r \in CmdRequests : cmdKind[r] \in {"none", "disconnect"}

\* The request has been answered with this status.
Answered(r, status) ==
    /\ cmdPc[r] = "done"
    /\ cmdResp[r] # NoResponse
    /\ cmdResp[r].status = status

\* C11 as stated: 409 on a session that is not connected, without a call of
\* user.Disconnect; and over any interleaving of disconnect requests
\* user.Disconnect is invoked at most once.
C11_DisconnectInvokedOnce ==
    OnlyDisconnects =>
        /\ \A r \in CmdRequests : Answered(r, StatusConflict) => cmdCalls[r] = 0
        /\ cmdCalls["r1"] + cmdCalls["r2"] <= 1

\* C11 amended: a disconnect request that finds the session not connected is
\* answered 409 at once, with no call of user.Disconnect and the session left
\* as it was; one that finds it connected calls user.Disconnect exactly once
\* and is answered 200 or 500; and while only disconnect requests arrive the
\* session goes from connected to disconnected at most once.
C11_DisconnectIdempotent ==
    [][/\ \A r \in CmdRequests :
            (cmdKind[r] = "disconnect" /\ cmdPc[r] = "check" /\ cmdPc'[r] # "check") =>
                IF ~connected
                THEN /\ Answered(r, StatusConflict)'
                     /\ cmdCalls'[r] = 0
                     /\ UNCHANGED <<connected, hasSession, loggedIn, disconnects>>
                ELSE cmdPc'[r] = "call" /\ cmdResp'[r] = NoResponse
       /\ \A r \in CmdRequests :
            (cmdKind[r] = "disconnect" /\ cmdPc'[r] = "done") =>
                \/ Answered(r, StatusConflict)' /\ cmdCalls'[r] = 0
                \/ /\ cmdCalls'[r] = 1
                   /\ cmdErr'[r] = "ok"
                   /\ Answered(r, StatusOK)'
                \/ /\ cmdCalls'[r] = 1
                   /\ cmdErr'[r] = "err"
                   /\ Answered(r, StatusInternalServerError)'
       /\ OnlyDisconnects' => disconnects' <= 1
       /\ OnlyDisconnects' => (connected' => connected)
      ]_vars

\* C11 witness: of two disconnect requests on a connected session, one
\* disconnected it with a single call and the other was answered 409
\* without a call.
C11_Witness ==
    /\ OnlyDisconnects
    /\ Answered("r1", StatusOK)
    /\ cmdCalls["r1"] = 1
    /\ Answered("r2", StatusConflict)
    /\ cmdCalls["r2"] = 0
    /\ disconnects = 1
    /\ ~connected

\* C12: a reconnect request that finds the session connected is answered 409
\* and never calls user.Connect; one that finds it not connected calls
\* user.Connect exactly once and is answered 200 when the call succeeded and
\* 500 when it returned an error.
C12_ReconnectOnce ==
    [][\A r \in CmdRequests :
         /\ (cmdKind[r] = "reconnect" /\ cmdPc[r] = "check" /\ cmdPc'[r] # "check") =>
                IF connected
                THEN /\ Answered(r, StatusConflict)'
                     /\ cmdCalls'[r] = 0
                     /\ UNCHANGED <<connected, hasSession, loggedIn, connects>>
                ELSE cmdPc'[r] = "call" /\ cmdResp'[r] = NoResponse
         /\ (cmdKind[r] = "reconnect" /\ cmdPc'[r] = "done") =>
                \/ /\ Answered(r, StatusConflict)'
                   /\ cmdCalls'[r] = 0
                \/ /\ cmdCalls'[r] = 1
                   /\ cmdErr'[r] = "ok"
                   /\ Answered(r, StatusOK)'
                \/ /\ cmdCalls'[r] = 1
                   /\ cmdErr'[r] = "err"
                   /\ Answered(r, StatusInternalServerError)'
      ]_vars

\* C12 witness: one reconnect request connected the session with a single
\* call and got 200, the other found it connected and got 409 without a call.
C12_Witness ==
    /\ cmdKind["r1"] = "reconnect"
    /\ cmdKind["r2"] = "reconnect"
    /\ Answered("r1", StatusOK)
    /\ cmdCalls["r1"] = 1
    /\ cmdErr["r1"] = "ok"
    /\ Answered("r2", StatusConflict)
    /\ cmdCalls["r2"] = 0
    /\ connects = 1
    /\ connected

\* The query value spells "false" in some mix of upper and lower case.
SaysFalse(query) ==
    /\ Len(query) = 5
    /\ query[1] \in {"f", "F"}
    /\ query[2] \in {"a", "A"}
    /\ query[3] \in {"l", "L"}
    /\ query[4] \in {"s", "S"}
    /\ query[5] \in {"e", "E"}

\* The response written for r is an error body.
ErrorBody(r) ==
    /\ cmdResp[r] # NoResponse
    /\ cmdResp[r].body.success = FALSE
    /\ cmdResp[r].status # StatusOK

\* C13: logout takes force as true unless the query value is "false" in any
\* case; when user.Logout returned an error the response is 500 exactly when
\* force is false and 200 otherwise; a request that finds the user not
\* logged in is answered with an error and never calls user.Logout.
C13_LogoutForce ==
    [][\A r \in CmdRequests :
         /\ (cmdKind[r] = "logout" /\ cmdPc[r] = "check" /\ cmdPc'[r] # "check"
                /\ ~loggedIn) =>
                /\ cmdPc'[r] = "done"
                /\ ErrorBody(r)'
                /\ cmdCalls'[r] = 0
         /\ (cmdKind[r] = "logout" /\ cmdPc'[r] = "done") =>
                /\ cmdCalls'[r] = 0 <=> cmdErr'[r] = "none"
                /\ cmdCalls'[r] <= 1
                /\ Force(cmdForce[r]) <=> ~SaysFalse(cmdForce[r])
                /\ cmdErr'[r] = "err" =>
                     IF SaysFalse(cmdForce[r])
                     THEN Answered(r, StatusInternalServerError)' /\ ErrorBody(r)'
                     ELSE Answered(r, StatusOK)'
                /\ cmdErr'[r] = "ok" => Answered(r, StatusOK)'
      ]_vars

\* C13 witness: user.Logout returned an error to two requests; the one with
\* force=False got 500, the one without a force value got 200.
C13_Witness ==
    /\ cmdKind["r1"] = "logout"
    /\ cmdForce["r1"] = <<"F", "a", "l", "s", "e">>
    /\ cmdErr["r1"] = "err"
    /\ Answered("r1", StatusInternalServerError)
    /\ cmdKind["r2"] = "logout"
    /\ cmdForce["r2"] = <<>>
    /\ cmdErr["r2"] = "err"
    /\ Answered("r2", StatusOK)

\* The body has exactly the three fields of an error, with success false.
ThreeFieldError(body) ==
    /\ DOMAIN body = {"success", "error", "errcode"}
    /\ body.success = FALSE

\* C14 as stated: every error response is a body with the three fields
\* success=false, error and errcode; here for what the credential gate
\* writes when it rejects a request.
C14_GateErrorThreeFields ==
    response # NoResponse => ThreeFieldError(response.body)

\* The same for the command handlers' error responses and for the failure
\* messages of the handshake.
CommandErrorsThreeFields ==
    \A r \in CmdRequests :
        (cmdResp[r] # NoResponse /\ cmdResp[r].status # StatusOK) =>
            ThreeFieldError(cmdResp[r].body)

HandshakeErrorsThreeFields ==
    \A h \in Handlers : \A i \in 1..Len(sent[h]) :
        (~IsCodeMessage(sent[h][i]) /\ ~IsSuccessMessage(sent[h][i])) =>
            ThreeFieldError(sent[h][i])

\* C15 as stated: a login handler holds the session's lock exactly while it
\* is in the commit step, the write of user.ID and the persist.
C15_CommitUnderLock ==
    \A h \in Handlers : (pc[h] \in {"setID", "update"}) <=> (lock = h)

\* A ping holds the lock and is about to read user.ID while a handshake is at
\* its assignment.
PingReadsDuringWrite ==
    \E p \in Pings : pingPc[p] = "readID" /\ lock = p /\ Writers # {}

\* A ping read a torn identity.
PingSawTornID ==
    \E p \in Pings : pingID[p] = TornID

\* No login handler ever holds the lock, so no ping waits for one.
LoginNeverLocks ==
    lock \in Pings \cup {"none"}

\* C16: a read from the closed code channel writes nothing to the peer,
\* changes nothing of the session and leaves the handler in the select; the
\* handler leaves the wait only with a code to write, through the completion
\* signal, or through the cancellation token, and it ends there only through
\* the last two.
C16_ClosedReadIsNoOp ==
    [][\A h \in Handlers :
         /\ closedReads'[h] # closedReads[h] =>
                /\ pc[h] = "select"
                /\ pc'[h] = "select"
                /\ sent' = sent
                /\ emitted' = emitted
                /\ outcome' = outcome
                /\ mutated' = mutated
                /\ UNCHANGED <<userID, persistedID, loggedIn>>
         /\ (pc[h] = "select" /\ pc'[h] # "select") =>
                \/ /\ pc'[h] = "writeCode"
                   /\ qrCode'[h] \in Codes
                \/ /\ pc'[h] = "result"
                   /\ DoneReady(h)'
                \/ /\ pc'[h] = "return"
                   /\ outcome'[h] = "Cancelled"
                   /\ CtxDone(h)'
      ]_vars

\* C16 witness: the closed code channel was read, nothing was written for
\* it, and the handshake then ended through the closed completion channel.
C16_Witness ==
    \E h \in Handlers :
        /\ closedReads[h] >= 1
        /\ chansClosed[h]
        /\ emitted[h] = <<>>
        /\ outcome[h] = "FailedResult"
        /\ \A i \in 1..Len(sent[h]) : IsFailureMessage(sent[h][i])

\* The peer's close frame is there to be read while the handler is in the
\* select loop and the completion channel is not ready.
CloseWhileWaiting(h) ==
    /\ peerClosed[h]
    /\ reader[h] = "reading"
    /\ conn[h] = "open"
    /\ pc[h] \in {"select", "writeCode"}
    /\ ~DoneReady(h)

\* C17 as stated: after the peer closes during a handshake waiting in the
\* select loop, the cancellation token eventually fires and the handler
\* eventually returns.
C17_CloseCancelsAndReturns ==
    \A h \in FairHandlers :
        CloseWhileWaiting(h) ~> (cancelled[h] /\ pc[h] = "done")

\* C17 amended: after the peer closes during a handshake waiting in the
\* select loop the handler eventually returns, and the cancellation token has
\* fired by then unless the completion channel became ready first.
C17_CloseEndsHandler ==
    \A h \in FairHandlers :
        CloseWhileWaiting(h) ~>
            (pc[h] = "done" /\ (cancelled[h] \/ DoneReady(h)))

\* C17 witness: the close frame was read while the handler waited with no
\* completion signal, the token fired, and the handler returned Cancelled.
C17_Witness ==
    \E h \in FairHandlers :
        /\ peerClosed[h]
        /\ closedWaiting[h]
        /\ cancelled[h]
        /\ ~DoneReady(h)
        /\ outcome[h] = "Cancelled"
        /\ pc[h] = "done"

\* C18: once a Dial error has closed both channels the handshake reaches a
\* terminal state and the handler returns; the select does not take the
\* closed code channel for ever.
C18_DialErrorTerminates ==
    \A h \in FairHandlers :
        chansClosed[h] ~> (pc[h] = "done" /\ outcome[h] # "none")

\* C18 witness: after a Dial error the select took the closed code channel,
\* then the closed completion channel, and the handler returned Failed.
C18_Witness ==
    \E h \in FairHandlers :
        /\ chansClosed[h]
        /\ closedReads[h] >= 1
        /\ ~cancelled[h]
        /\ outcome[h] = "FailedResult"
        /\ pc[h] = "done"

\* C19: the id in a handshake's success message is the identity that the
\* same handshake's Result() returned.
C19_SuccessCarriesOwnIdentity ==
    \A h \in Handlers : \A i \in 1..Len(sent[h]) :
        IsSuccessMessage(sent[h][i]) => sent[h][i].id = discordUser[h]

\* The entries of the Sec-WebSocket-Protocol list that start with the
\* protocol identifier and a dash, by position.
PrefixedEntries(req) ==
    {i \in 1..Len(Split(req.protocol)) :
        HasPrefix(TrimSpace(Split(req.protocol)[i]),
                  Append(SecWebSocketProtocol, "-"))}

\* The token after the prefix of the first such entry.
FirstEmbeddedToken(req) ==
    LET i == CHOOSE j \in PrefixedEntries(req) :
                 \A k \in PrefixedEntries(req) : j <= k
        part == TrimSpace(Split(req.protocol)[i])
    IN SubSeq(part, Len(SecWebSocketProtocol) + 2, Len(part))

\* The Authorization header is the secret, bare or as a bearer token.
HeaderCarries(req, s) ==
    req.authorization = s \/ req.authorization = BearerPrefix \o s

\* C20: the token embedded in the subprotocol list counts only on the login
\* route and only when Authorization is empty; everywhere else the request
\* is served exactly when the Authorization header carries the secret, and
\* is answered 403 otherwise, whatever the list holds.  On the login route
\* with an empty Authorization the request is served exactly when the first
\* entry with the protocol prefix embeds the secret.
C20_EmbeddedTokenOnlyOnLogin ==
    request # NoRequest =>
        /\ IF request.authorization = <<>> /\ HasSuffix(request.path, LoginSuffix)
           THEN served <=>
                   /\ PrefixedEntries(request) # {}
                   /\ FirstEmbeddedToken(request) = secret
           ELSE served <=> HeaderCarries(request, secret)
        /\ ~served => (response # NoResponse /\ response.status = 403)
        /\ served => response = NoResponse

\* C20 witness: a request to another route than login, with no
\* Authorization header and the secret embedded in the first entry of the
\* subprotocol list, was answered 403.
C20_Witness ==
    /\ request # NoRequest
    /\ ~HasSuffix(request.path, LoginSuffix)
    /\ request.authorization = <<>>
    /\ PrefixedEntries(request) # {}
    /\ FirstEmbeddedToken(request) = secret
    /\ response # NoResponse
    /\ response.status = 403
    /\ ~served

\* On the login route a list whose first prefixed entry embeds another token
\* and whose second embeds the secret was answered 403.
LaterEntryIgnored ==
    /\ request # NoRequest
    /\ HasSuffix(request.path, LoginSuffix)
    /\ request.authorization = <<>>
    /\ PrefixedEntries(request) = {1, 2}
    /\ FirstEmbeddedToken(request) # secret
    /\ TrimSpace(Split(request.protocol)[2]) = Append(SecWebSocketProtocol, "-") \o secret
    /\ ~served

====
